---- MODULE Spec2Model ----
(***************************************************************************)
(* Verification model of romange/supersonic:                               *)
(*   - supersonic/base/infrastructure/hasher.h : CityHash64 and its tiers, *)
(*     modelled by control flow and by the buffer loads each tier issues,  *)
(*     and LoadBytes, modelled on 8-bit limbs of the 64-bit accumulator.   *)
(*   - supersonic/utils/exception/coowned_pointer.h : CoownedPointer<T>,   *)
(*     modelled with the atomic steps of release() and of the destructor.  *)
(* A size_t value is represented by its signed residue modulo 2^64: a      *)
(* negative integer v stands for 2^64 + v (a wrapped counter).             *)
(* The 64-bit mixing arithmetic of the tiers is kept symbolic: `result`    *)
(* names the expression the code returns.                                  *)
(***************************************************************************)
EXTENDS Integers, Sequences, FiniteSets, TLC

\* ------------------------------------------------------------------ bounds
MaxLen == 200          \* largest input length handed to CityHash64
MaxIter == (MaxLen \div 64) + 2   \* cap on chunk-loop iterations explored

VARIABLES
  \* CityHash64 call
  len,        \* the `len` argument of CityHash64 (input length)
  pc,         \* position inside CityHash64
  tier,       \* which routine the dispatcher entered
  band,       \* which branch of HashLen0to16 ran ("-" elsewhere)
  reads,      \* set of loads <<offset, width>> issued so far, offsets from buffer start
  rem,        \* the local `len` after line 213 (remaining rounded length)
  cursor,     \* offset of the moving pointer `s` from the buffer start
  iters,      \* number of completed do-while iterations
  result,     \* returned value: [expr |-> returned expression, value |-> its limbs when constant]
  \* LoadBytes call
  charSigned, \* build: is plain `char` a signed type
  lbBuf,      \* the bytes buf[0..length-1], as unsigned values (lbBuf[i+1] is buf[i])
  lbLen,      \* the `len` argument as passed
  lbI,        \* the local `len` while the loop runs
  lbVal,      \* `val`, eight 8-bit limbs, least significant first
  lbReads,    \* indexes of buf read so far
  lbPc,       \* position inside LoadBytes
  \* CoownedPointer<T> objects and their control blocks
  alive,      \* alive[p]: pointer object p is constructed and not yet destroyed
  value_,     \* value_[p]   (NULL is 0, the object wrapped by control block c is c)
  control_,   \* control_[p] (nullptr is 0)
  ppc,        \* ppc[p]: position of the operation running on p
  count,      \* count[c]  : Control::count
  cvalue,     \* cvalue[c] : Control::value
  freedBy,    \* freedBy[c]: "-" while the block is allocated, else who deleted it
  nextCtl,    \* next control block / object to allocate
  deleted,    \* deleted[o]: a destructor has deleted the referenced object o
  returned,   \* returned[o]: how many release() calls returned o
  crashed,    \* the process aborted (CHECK failure or null dereference)
  peer,       \* history: peer[p] is the co-owner group (control block) p was made for
  releasedGrp \* history: groups on which release() ran with a non-NULL object

hvars == <<len, pc, tier, band, reads, rem, cursor, iters, result>>
lvars == <<charSigned, lbBuf, lbLen, lbI, lbVal, lbReads, lbPc>>
pvars == <<alive, value_, control_, ppc, count, cvalue, freedBy, nextCtl,
           deleted, returned, crashed, peer, releasedGrp>>
vars == <<hvars, lvars, pvars>>

\* ----------------------------------------------------------- hasher.h
k2 == <<39649, 27195, 12176, 16463>>   \* 0x9ae1 6a3b 2f90 404f, 16-bit limbs, high first

Fetch64(off) == <<off, 8>>
Fetch32(off) == <<off, 4>>
FetchByte(off) == <<off, 1>>

\* faulty dispatcher: the 0-16 tier test written as len < 16
RouteStrict(n) ==
  IF n <= 32
    THEN IF n < 16 THEN "HashLen0to16" ELSE "HashLen17to32"
    ELSE IF n <= 64 THEN "HashLen33to64" ELSE "Large"

\* CityHash64 lines 193-201: the dispatcher
Route(n) ==
  IF n <= 32
    THEN IF n <= 16 THEN "HashLen0to16" ELSE "HashLen17to32"
    ELSE IF n <= 64 THEN "HashLen33to64" ELSE "Large"

\* HashLen0to16: which branch runs
Band0to16(n) ==
  IF n >= 8 THEN "8-16"
  ELSE IF n >= 4 THEN "4-7"
  ELSE IF n > 0 THEN "1-3"
  ELSE "0"

\* faulty 1-3 band: the middle byte taken at len >> 2
HashLen0to16ReadsQuarter(n) ==
  IF n >= 8 THEN {Fetch64(0), Fetch64(n - 8)}
  ELSE IF n >= 4 THEN {Fetch32(0), Fetch32(n - 4)}
  ELSE IF n > 0 THEN {FetchByte(0), FetchByte(n \div 4), FetchByte(n - 1)}
  ELSE {}

\* HashLen0to16: the loads of the branch that runs
HashLen0to16Reads(n) ==
  IF n >= 8 THEN {Fetch64(0), Fetch64(n - 8)}
  ELSE IF n >= 4 THEN {Fetch32(0), Fetch32(n - 4)}
  ELSE IF n > 0 THEN {FetchByte(0), FetchByte(n \div 2), FetchByte(n - 1)}
  ELSE {}

\* HashLen0to16: the returned expression
HashLen0to16Result(n) ==
  IF n >= 8 THEN "HashLen16(c, d, mul)"
  ELSE IF n >= 4 THEN "HashLen16(len + (a << 3), Fetch32(s + len - 4), mul)"
  ELSE IF n > 0 THEN "ShiftMix(y * k2 ^ z * k0) * k2"
  ELSE "k2"

\* the value of a returned expression: known limbs for a constant, <<>> when it
\* depends on the input bytes
Returned(e) == [expr |-> e, value |-> IF e = "k2" THEN k2 ELSE <<>>]

HashLen17to32Reads(n) ==
  {Fetch64(0), Fetch64(8), Fetch64(n - 8), Fetch64(n - 16)}

HashLen33to64Reads(n) ==
  {Fetch64(0), Fetch64(8), Fetch64(n - 24), Fetch64(n - 32),
   Fetch64(16), Fetch64(24), Fetch64(n - 8), Fetch64(n - 16)}

\* faulty WeakHashLen32WithSeeds: the fourth word fetched at s + 32
WeakHashLen32WithSeedsReadsOff8(off) ==
  {Fetch64(off), Fetch64(off + 8), Fetch64(off + 16), Fetch64(off + 32)}

\* WeakHashLen32WithSeeds(const char* s, a, b): four 8-byte loads
WeakHashLen32WithSeedsReads(off) ==
  {Fetch64(off), Fetch64(off + 8), Fetch64(off + 16), Fetch64(off + 24)}

\* CityHash64 lines 205-210: seeding from the tail, plus Fetch64(s)
TailReads(n) ==
  {Fetch64(n - 40), Fetch64(n - 16), Fetch64(n - 56),
   Fetch64(n - 48), Fetch64(n - 24), Fetch64(0)}
  \cup WeakHashLen32WithSeedsReads(n - 64)
  \cup WeakHashLen32WithSeedsReads(n - 32)

\* faulty rounding: the mask is dropped, len = len - 1
RoundedLenNoMask(n) == n - 1

\* faulty rounding: len = len & ~63, without the decrement
RoundedLenNoDecrement(n) == (n \div 64) * 64

\* CityHash64 line 213: len = (len - 1) & ~static_cast<size_t>(63)
\* (for n = 0 the subtraction wraps to 2^64 - 1, whose rounding is 2^64 - 64)
RoundedLen(n) ==
  IF n >= 1 THEN ((n - 1) \div 64) * 64 ELSE -64

\* CityHash64 lines 215-221: loads of one loop body with `s` at offset off
ChunkReads(off) ==
  {Fetch64(off + 8), Fetch64(off + 48), Fetch64(off + 40), Fetch64(off + 16)}
  \cup WeakHashLen32WithSeedsReads(off)
  \cup WeakHashLen32WithSeedsReads(off + 32)

\* CityHash64 lines 223-224: s += 64; len -= 64
AdvanceCursor(off) == off + 64
DecreaseLen(r) == r - 64

\* no CityHash64 call is in progress
IdleHash ==
  /\ len = 0
  /\ pc = "idle"
  /\ tier = "-"
  /\ band = "-"
  /\ reads = {}
  /\ rem = 0
  /\ cursor = 0
  /\ iters = 0
  /\ result = Returned("-")

InitHash ==
  /\ len \in 0..MaxLen
  /\ pc = "call"
  /\ tier = "-"
  /\ band = "-"
  /\ reads = {}
  /\ rem = 0
  /\ cursor = 0
  /\ iters = 0
  /\ result = Returned("-")

\* CityHash64 -> HashLen0to16
CallHashLen0to16 ==
  /\ pc = "call"
  /\ Route(len) = "HashLen0to16"
  /\ tier' = "HashLen0to16"
  /\ band' = Band0to16(len)
  /\ reads' = HashLen0to16Reads(len)
  /\ result' = Returned(HashLen0to16Result(len))
  /\ pc' = "done"
  /\ UNCHANGED <<len, rem, cursor, iters>>
  /\ UNCHANGED <<lvars, pvars>>

\* CityHash64 -> HashLen17to32
CallHashLen17to32 ==
  /\ pc = "call"
  /\ Route(len) = "HashLen17to32"
  /\ tier' = "HashLen17to32"
  /\ reads' = HashLen17to32Reads(len)
  /\ result' = Returned("HashLen16(Rotate(a + b, 43) + Rotate(c, 30) + d, a + Rotate(b + k2, 18) + c, mul)")
  /\ pc' = "done"
  /\ UNCHANGED <<len, band, rem, cursor, iters>>
  /\ UNCHANGED <<lvars, pvars>>

\* CityHash64 -> HashLen33to64
CallHashLen33to64 ==
  /\ pc = "call"
  /\ Route(len) = "HashLen33to64"
  /\ tier' = "HashLen33to64"
  /\ reads' = HashLen33to64Reads(len)
  /\ result' = Returned("b + x")
  /\ pc' = "done"
  /\ UNCHANGED <<len, band, rem, cursor, iters>>
  /\ UNCHANGED <<lvars, pvars>>

\* CityHash64 lines 203-213: len > 64, hash the end first, then round len
TailSeed ==
  /\ pc = "call"
  /\ Route(len) = "Large"
  /\ tier' = "Large"
  /\ reads' = TailReads(len)
  /\ rem' = RoundedLen(len)
  /\ cursor' = 0
  /\ pc' = "loop"
  /\ UNCHANGED <<len, band, iters, result>>
  /\ UNCHANGED <<lvars, pvars>>

\* CityHash64 lines 214-225: one pass of the do-while body and its test
LoopIter ==
  /\ pc = "loop"
  /\ iters < MaxIter
  /\ reads' = reads \cup ChunkReads(cursor)
  /\ cursor' = AdvanceCursor(cursor)
  /\ rem' = DecreaseLen(rem)
  /\ iters' = iters + 1
  /\ pc' = IF rem' # 0 THEN "loop" ELSE "final"
  /\ UNCHANGED <<len, tier, band, result>>
  /\ UNCHANGED <<lvars, pvars>>

\* CityHash64 lines 226-227
Finalize ==
  /\ pc = "final"
  /\ result' = Returned("HashLen16(HashLen16(v.first, w.first) + ShiftMix(y) * k1 + z, HashLen16(v.second, w.second) + x)")
  /\ pc' = "done"
  /\ UNCHANGED <<len, tier, band, reads, rem, cursor, iters>>
  /\ UNCHANGED <<lvars, pvars>>

NextHash ==
  \/ CallHashLen0to16
  \/ CallHashLen17to32
  \/ CallHashLen33to64
  \/ TailSeed
  \/ LoopIter
  \/ Finalize

\* ------------------------------------------------------- hasher.h: LoadBytes
LoadBytesLimit == 9                 \* DCHECK_LT(len, 9)
ByteVals == {0, 127, 128}           \* byte contents explored (unsigned values)
ZeroVal == [i \in 1..8 |-> 0]

RECURSIVE BitOr(_, _, _)
\* bitwise OR of the low n bits of x and y
BitOr(x, y, n) ==
  IF n = 0 THEN 0
  ELSE (IF (x % 2 = 1) \/ (y % 2 = 1) THEN 1 ELSE 0)
       + 2 * BitOr(x \div 2, y \div 2, n - 1)

\* val << 8 on a uint64
ShiftLeft8(v) == [i \in 1..8 |-> IF i = 1 THEN 0 ELSE v[i - 1]]

\* buf[len] used as an operand of `|` with a uint64: the char is promoted to
\* int and converted to uint64, which sign-extends a negative char
CharToUint64(b, isSigned) ==
  [i \in 1..8 |-> IF i = 1 THEN b
                  ELSE IF isSigned /\ b >= 128 THEN 255 ELSE 0]

Or64(v, w) == [i \in 1..8 |-> BitOr(v[i], w[i], 8)]

\* LoadBytes line 46: val = (val << 8) | buf[len]
LoadStep(v, b, isSigned) == Or64(ShiftLeft8(v), CharToUint64(b, isSigned))

\* no LoadBytes call is in progress
IdleLoad ==
  /\ charSigned = FALSE
  /\ lbLen = 0
  /\ lbBuf = <<>>
  /\ lbI = 0
  /\ lbVal = ZeroVal
  /\ lbReads = {}
  /\ lbPc = "idle"

InitLoad ==
  /\ charSigned \in BOOLEAN
  /\ lbLen \in 0..(LoadBytesLimit - 1)
  /\ lbBuf \in [1..lbLen -> ByteVals]
  /\ lbI = lbLen
  /\ lbVal = ZeroVal
  /\ lbReads = {}
  /\ lbPc = "entry"

\* LoadBytes lines 43-44: uint64 val = 0; --len;
LoadBytesEnter ==
  /\ lbPc = "entry"
  /\ lbVal' = ZeroVal
  /\ lbI' = lbI - 1
  /\ lbPc' = "loop"
  /\ UNCHANGED <<charSigned, lbBuf, lbLen, lbReads>>
  /\ UNCHANGED <<hvars, pvars>>

\* LoadBytes lines 45-47: one pass of the do-while body and its test.
\* A read outside buf[0..length-1] yields an arbitrary byte.
LoadBytesIter ==
  /\ lbPc = "loop"
  /\ \E b \in (IF lbI \in 0..(lbLen - 1) THEN {lbBuf[lbI + 1]} ELSE ByteVals) :
       lbVal' = LoadStep(lbVal, b, charSigned)
  /\ lbReads' = lbReads \cup {lbI}
  /\ lbI' = lbI - 1
  /\ lbPc' = IF lbI' >= 0 THEN "loop" ELSE "ret"
  /\ UNCHANGED <<charSigned, lbBuf, lbLen>>
  /\ UNCHANGED <<hvars, pvars>>

NextLoad ==
  \/ LoadBytesEnter
  \/ LoadBytesIter

\* ------------------------------------------------- coowned_pointer.h
MaxPtr == 3            \* pointer objects that can exist at once
MaxCtl == 2            \* control blocks (and referenced objects) ever allocated
MaxCount == 3          \* cap on Control::count (operator= can raise it without limit)
MaxReturn == 2         \* cap on the number of release() returns counted per object

NULL == 0
Ptrs == 1..MaxPtr
Ctls == 1..MaxCtl

InitPtr ==
  /\ alive = [p \in Ptrs |-> FALSE]
  /\ value_ = [p \in Ptrs |-> NULL]
  /\ control_ = [p \in Ptrs |-> NULL]
  /\ ppc = [p \in Ptrs |-> "idle"]
  /\ count = [c \in Ctls |-> 0]
  /\ cvalue = [c \in Ctls |-> NULL]
  /\ freedBy = [c \in Ctls |-> "-"]
  /\ nextCtl = 1
  /\ deleted = [c \in Ctls |-> FALSE]
  /\ returned = [c \in Ctls |-> 0]
  /\ crashed = FALSE
  /\ peer = [p \in Ptrs |-> NULL]
  /\ releasedGrp = {}

\* T* get() { return value_; }
get(p) == value_[p]

\* bool is_owner() const
is_owner(p) ==
  IF control_[p] = NULL THEN FALSE
  ELSE cvalue[control_[p]] # NULL

\* a pointer object on which no operation is running
Usable(p) == alive[p] /\ ppc[p] = "idle"

\* explicit CoownedPointer() {}
DefaultConstruct(p) ==
  /\ ~crashed /\ ~alive[p]
  /\ alive' = [alive EXCEPT ![p] = TRUE]
  /\ UNCHANGED <<value_, control_, ppc, count, cvalue, freedBy, nextCtl,
                 deleted, returned, crashed, peer, releasedGrp>>
  /\ UNCHANGED <<hvars, lvars>>

\* explicit CoownedPointer(T* value): value_(value), control_(new Control(value))
Construct(p, isNull) ==
  /\ ~crashed /\ ~alive[p]
  /\ nextCtl <= MaxCtl
  /\ LET c == nextCtl
         v == IF isNull THEN NULL ELSE c
     IN /\ alive' = [alive EXCEPT ![p] = TRUE]
        /\ value_' = [value_ EXCEPT ![p] = v]
        /\ control_' = [control_ EXCEPT ![p] = c]
        /\ count' = [count EXCEPT ![c] = 1]
        /\ cvalue' = [cvalue EXCEPT ![c] = v]
        /\ peer' = [peer EXCEPT ![p] = c]
        /\ nextCtl' = c + 1
  /\ UNCHANGED <<ppc, freedBy, deleted, returned, crashed, releasedGrp>>
  /\ UNCHANGED <<hvars, lvars>>

\* CoownedPointer(const CoownedPointer& other)
CopyConstruct(p, other) ==
  /\ ~crashed /\ ~alive[p] /\ Usable(other)
  /\ control_[other] # NULL => count[control_[other]] < MaxCount
  /\ alive' = [alive EXCEPT ![p] = TRUE]
  /\ value_' = [value_ EXCEPT ![p] = value_[other]]
  /\ control_' = [control_ EXCEPT ![p] = control_[other]]
  /\ count' = IF control_[other] # NULL
                THEN [count EXCEPT ![control_[other]] = @ + 1]
                ELSE count
  /\ peer' = [peer EXCEPT ![p] = peer[other]]
  /\ UNCHANGED <<ppc, cvalue, freedBy, nextCtl, deleted, returned, crashed,
                 releasedGrp>>
  /\ UNCHANGED <<hvars, lvars>>

\* CoownedPointer(CoownedPointer&& other)
MoveConstruct(p, other) ==
  /\ ~crashed /\ ~alive[p] /\ Usable(other)
  /\ alive' = [alive EXCEPT ![p] = TRUE]
  /\ value_' = [value_ EXCEPT ![p] = value_[other], ![other] = NULL]
  /\ control_' = [control_ EXCEPT ![p] = control_[other], ![other] = NULL]
  /\ peer' = [peer EXCEPT ![p] = peer[other], ![other] = NULL]
  /\ UNCHANGED <<ppc, count, cvalue, freedBy, nextCtl, deleted, returned,
                 crashed, releasedGrp>>
  /\ UNCHANGED <<hvars, lvars>>

\* CoownedPointer& operator=(const CoownedPointer& other)
\* control_->count++ runs also when other.control_ is nullptr: a null dereference
CopyAssign(p, other) ==
  /\ ~crashed /\ Usable(p) /\ Usable(other)
  /\ IF p = other
       THEN UNCHANGED pvars
     ELSE IF control_[other] = NULL
       THEN /\ crashed' = TRUE
            /\ value_' = [value_ EXCEPT ![p] = value_[other]]
            /\ control_' = [control_ EXCEPT ![p] = NULL]
            /\ peer' = [peer EXCEPT ![p] = peer[other]]
            /\ UNCHANGED <<alive, ppc, count, cvalue, freedBy, nextCtl,
                           deleted, returned, releasedGrp>>
     ELSE /\ count[control_[other]] < MaxCount
          /\ value_' = [value_ EXCEPT ![p] = value_[other]]
          /\ control_' = [control_ EXCEPT ![p] = control_[other]]
          /\ count' = [count EXCEPT ![control_[other]] = @ + 1]
          /\ peer' = [peer EXCEPT ![p] = peer[other]]
          /\ UNCHANGED <<alive, ppc, cvalue, freedBy, nextCtl, deleted,
                         returned, crashed, releasedGrp>>
  /\ UNCHANGED <<hvars, lvars>>

\* CoownedPointer& operator=(CoownedPointer&& other): swap
MoveAssign(p, other) ==
  /\ ~crashed /\ Usable(p) /\ Usable(other)
  /\ value_' = [value_ EXCEPT ![p] = value_[other], ![other] = value_[p]]
  /\ control_' = [control_ EXCEPT ![p] = control_[other], ![other] = control_[p]]
  /\ peer' = [peer EXCEPT ![p] = peer[other], ![other] = peer[p]]
  /\ UNCHANGED <<alive, ppc, count, cvalue, freedBy, nextCtl, deleted,
                 returned, crashed, releasedGrp>>
  /\ UNCHANGED <<hvars, lvars>>

\* faulty leave(): the store of nullptr is missing
LeaveStoreSkipped(c) == cvalue

\* leave() line 158: control_->value.store(nullptr)
LeaveStore(c) == [cvalue EXCEPT ![c] = NULL]

\* release() line 135: CHECK(value_ == nullptr), taken when control_ == nullptr
ReleaseCheckFails(p) == value_[p] # NULL

\* release() line 140: return value_
ReleaseReturn(p) == value_[p]

\* release(), first atomic step: the CHECK when control_ is nullptr, else
\* leave() up to the store of nullptr into the control block
ReleaseBegin(p) ==
  /\ ~crashed /\ Usable(p)
  /\ IF control_[p] = NULL
       THEN /\ crashed' = ReleaseCheckFails(p)
            /\ UNCHANGED <<alive, value_, control_, ppc, count, cvalue, freedBy,
                           nextCtl, deleted, returned, peer, releasedGrp>>
       ELSE /\ value_[p] # NULL => returned[value_[p]] < MaxReturn
            /\ cvalue' = LeaveStore(control_[p])
            /\ ppc' = [ppc EXCEPT ![p] = "release_stored"]
            /\ releasedGrp' = IF value_[p] # NULL
                                THEN releasedGrp \cup {peer[p]}
                                ELSE releasedGrp
            /\ UNCHANGED <<alive, value_, control_, count, freedBy, nextCtl,
                           deleted, returned, crashed, peer>>
  /\ UNCHANGED <<hvars, lvars>>

\* release(), second atomic step: leave() from count.fetch_sub(1) on, then
\* return value_
ReleaseEnd(p) ==
  /\ ~crashed /\ alive[p] /\ ppc[p] = "release_stored"
  /\ LET c == control_[p]
         r == ReleaseReturn(p)
     IN /\ count' = [count EXCEPT ![c] = @ - 1]
        /\ freedBy' = IF count[c] = 1 THEN [freedBy EXCEPT ![c] = "leave"]
                                      ELSE freedBy
        /\ control_' = [control_ EXCEPT ![p] = NULL]
        /\ returned' = IF r # NULL THEN [returned EXCEPT ![r] = @ + 1]
                                   ELSE returned
  /\ ppc' = [ppc EXCEPT ![p] = "idle"]
  /\ UNCHANGED <<alive, value_, cvalue, nextCtl, deleted, crashed, peer,
                 releasedGrp>>
  /\ UNCHANGED <<hvars, lvars>>

\* faulty destructor: delete value_ instead of the control block's value
DtorDeletesOwnValue(p) == value_[p]

\* ~CoownedPointer() line 74: delete control_->value.load()
DtorDeletes(p) == cvalue[control_[p]]

\* ~CoownedPointer(), first atomic step: control_->count.fetch_sub(1)
DtorBegin(p) ==
  /\ ~crashed /\ Usable(p)
  /\ LET c == control_[p]
         last == c # NULL /\ count[c] = 1
     IN /\ count' = IF c # NULL THEN [count EXCEPT ![c] = @ - 1] ELSE count
        /\ ppc' = [ppc EXCEPT ![p] = IF last THEN "dtor_last" ELSE "idle"]
        /\ alive' = [alive EXCEPT ![p] = last]
        /\ value_' = IF last THEN value_ ELSE [value_ EXCEPT ![p] = NULL]
        /\ control_' = IF last THEN control_ ELSE [control_ EXCEPT ![p] = NULL]
        /\ peer' = IF last THEN peer ELSE [peer EXCEPT ![p] = NULL]
  /\ UNCHANGED <<cvalue, freedBy, nextCtl, deleted, returned, crashed,
                 releasedGrp>>
  /\ UNCHANGED <<hvars, lvars>>

\* ~CoownedPointer(), second step, run by the co-owner that saw count == 1:
\* delete control_->value.load(); delete control_;
DtorDelete(p) ==
  /\ ~crashed /\ alive[p] /\ ppc[p] = "dtor_last"
  /\ LET c == control_[p]
         o == DtorDeletes(p)
     IN /\ deleted' = IF o # NULL THEN [deleted EXCEPT ![o] = TRUE] ELSE deleted
        /\ freedBy' = [freedBy EXCEPT ![c] = "dtor"]
  /\ alive' = [alive EXCEPT ![p] = FALSE]
  /\ ppc' = [ppc EXCEPT ![p] = "idle"]
  /\ value_' = [value_ EXCEPT ![p] = NULL]
  /\ control_' = [control_ EXCEPT ![p] = NULL]
  /\ peer' = [peer EXCEPT ![p] = NULL]
  /\ UNCHANGED <<count, cvalue, nextCtl, returned, crashed, releasedGrp>>
  /\ UNCHANGED <<hvars, lvars>>

NextPtr ==
  \/ \E p \in Ptrs : DefaultConstruct(p)
  \/ \E p \in Ptrs, isNull \in BOOLEAN : Construct(p, isNull)
  \/ \E p, other \in Ptrs : CopyConstruct(p, other)
  \/ \E p, other \in Ptrs : MoveConstruct(p, other)
  \/ \E p, other \in Ptrs : CopyAssign(p, other)
  \/ \E p, other \in Ptrs : MoveAssign(p, other)
  \/ \E p \in Ptrs : ReleaseBegin(p)
  \/ \E p \in Ptrs : ReleaseEnd(p)
  \/ \E p \in Ptrs : DtorBegin(p)
  \/ \E p \in Ptrs : DtorDelete(p)

\* ------------------------------------------------------- specifications
InitCityHash64 == InitHash /\ IdleLoad /\ InitPtr
InitLoadBytes == IdleHash /\ InitLoad /\ InitPtr
InitCoownedPointer == IdleHash /\ IdleLoad /\ InitPtr

SpecHash == InitCityHash64 /\ [][NextHash]_vars
FairSpecHash == SpecHash /\ WF_vars(NextHash)
SpecLoad == InitLoadBytes /\ [][NextLoad]_vars
SpecPtr == InitCoownedPointer /\ [][NextPtr]_vars

\* ------------------------------------------------------------- properties

\* byte index i of the buffer is inside some load issued so far
Covered(i) == \E r \in reads : r[1] <= i /\ i < r[1] + r[2]

\* C1: every load CityHash64 issues, in every tier and in the chunk loop,
\* starts at an offset >= 0 and ends at an offset <= len.
C1_ReadsInBounds ==
  \A r \in reads : r[1] >= 0 /\ r[1] + r[2] <= len

C1_Witness ==
  /\ pc = "done" /\ len = 129 /\ iters = 2
  /\ <<len - 8, 8>> \in reads /\ <<120, 8>> \in reads

\* C2: the tier (and the band of the 0-16 hasher) a finished call went through
\* is fixed by the length alone, with the documented edges, and the empty
\* input returns k2 = 0x9ae16a3b2f90404f.
C2_RoutesByLength ==
  pc = "done" =>
    /\ tier = "HashLen0to16" <=> len <= 16
    /\ tier = "HashLen17to32" <=> (17 <= len /\ len <= 32)
    /\ tier = "HashLen33to64" <=> (33 <= len /\ len <= 64)
    /\ tier = "Large" <=> len > 64
    /\ band = "0" <=> len = 0
    /\ band = "1-3" <=> (1 <= len /\ len <= 3)
    /\ band = "4-7" <=> (4 <= len /\ len <= 7)
    /\ band = "8-16" <=> (8 <= len /\ len <= 16)
    /\ len = 0 => result.value = <<39649, 27195, 12176, 16463>>
    /\ len > 0 => result.expr # "k2"

C2_Witness ==
  pc = "done" /\ len = 0 /\ tier = "HashLen0to16" /\ result.expr = "k2"

\* C3: every call returns; whenever the chunk loop is about to run a body the
\* remaining length is a positive multiple of 64, and it never wraps below 0.
C3_Terminates ==
  /\ [](rem >= 0 /\ (pc = "loop" => (rem > 0 /\ rem % 64 = 0)))
  /\ <>(pc = "done" /\ result.expr # "-")

C3_Witness ==
  pc = "done" /\ tier = "Large" /\ iters = 3 /\ rem = 0

\* C4 (as claimed): no object is handed out by release() more than once; a
\* second release() on the releasing pointer or on a peer crashes instead.
C4_NoSecondRelease ==
  \A c \in Ctls : returned[c] <= 1

\* C5: once release() ran on a group with a non-NULL object, every live
\* member of the group (the releasing pointer, its peers, later copies)
\* reports is_owner() = false and get() = the original object.
C5_ReleasedNotOwner ==
  \A p \in Ptrs :
    (alive[p] /\ ppc[p] # "dtor_last" /\ peer[p] \in releasedGrp)
      => (~is_owner(p) /\ get(p) = peer[p])

C5_Witness ==
  \E p, q \in Ptrs :
    /\ p # q /\ Usable(p) /\ Usable(q)
    /\ peer[p] = peer[q] /\ peer[p] \in releasedGrp
    /\ control_[p] = NULL /\ control_[q] # NULL
    /\ returned[peer[p]] = 1

\* C6: an object that release() took out of its group is never deleted by a
\* destructor of a co-owner, in any order and interleaving of the steps.
C6_ReleasedNotDestroyed ==
  \A c \in releasedGrp : ~deleted[c]

C6_Witness ==
  \E c \in releasedGrp :
    /\ returned[c] >= 1
    /\ freedBy[c] = "dtor"
    /\ \A p \in Ptrs : peer[p] # c
    /\ ~deleted[c]

\* C7 (as claimed): a finished large-input call ran floor(len / 64) loop bodies.
C7_FloorLenIterations ==
  (pc = "done" /\ len > 64) => iters = len \div 64

\* C7 (amended): the loop runs over len - 1 rounded down to a multiple of 64:
\* the cursor starts at the front and is 64 * iters, the remaining length is
\* that rounded length minus 64 * iters, positive while looping, and the loop
\* ends after floor((len - 1) / 64) bodies with nothing remaining.
C7_ChunkLoop ==
  tier = "Large" =>
    /\ cursor = 64 * iters
    /\ rem = ((len - 1) \div 64) * 64 - 64 * iters
    /\ pc = "loop" => rem > 0
    /\ pc \in {"final", "done"} => (rem = 0 /\ iters = (len - 1) \div 64)

C7_Witness ==
  pc = "done" /\ len = 128 /\ iters = 1 /\ cursor = 64

\* C8: when a call on a non-empty input has finished, every byte index in
\* [0, len) lies inside at least one load.
C8_EveryByteRead ==
  (pc = "done" /\ len >= 1) => \A i \in 0..(len - 1) : Covered(i)

C8_Witness ==
  pc = "done" /\ len = 131 /\ Covered(0) /\ Covered(130) /\ Covered(66)

\* C9 (as claimed): LoadBytes returns the little-endian packing of the
\* `length` bytes, zero above them, and reads only indexes in [0, length).
C9_LittleEndianPack ==
  lbPc = "ret" =>
    /\ lbVal = [i \in 1..8 |-> IF i <= lbLen THEN lbBuf[i] ELSE 0]
    /\ lbReads \subseteq 0..(lbLen - 1)
====
